---- MODULE Spec2Model ----
(***************************************************************************)
(* Model of logstash/__init__.py: the output sinks Sink, StdoutSink and    *)
(* RedisSink, and the reconnect policy of RedisSink.log.  The redis client *)
(* library is modelled at its API boundary: every call into it             *)
(* (StrictRedis(...), ping, rpush) has an outcome drawn from the outcomes  *)
(* the library can produce in the current server state.                    *)
(*   Spec       one RedisSink: construction, log, ping, server up/down     *)
(*   SpecTwo    two RedisSink objects constructing and logging             *)
(*   SpecPlain  Sink.log and StdoutSink.log                                *)
(***************************************************************************)
EXTENDS Integers, Sequences, FiniteSets, TLC

VARIABLES
    sink,        \* the RedisSink object the caller holds: NoSink or [host, port, key, conn]
    nextHandle,  \* identity of the next redis.StrictRedis object to be created
    state,       \* "NoSink", "Connected" or "Disconnected": result of the last I/O on the sink
    server,      \* reachability of the redis server: "up" or "down"
    store,       \* the server's lists, by key
    logLines,    \* what logging.getLogger('output') has emitted
    calls,       \* number of RedisSink.log calls made so far
    constructs,  \* number of RedisSink(...) constructions attempted so far
    last,        \* record of the last operation the caller performed
    sink2,       \* a second RedisSink object of the same process, or NoSink
    stdout,      \* what has been written to sys.stdout, one element per write
    plainCalls   \* number of Sink.log and StdoutSink.log calls made so far

vars == <<sink, nextHandle, state, server, store, logLines, calls, constructs, last,
          sink2, stdout, plainCalls>>

------------------------------------------------------------------------------
\* Bounds of the model
MaxCalls == 2
MaxConstructs == 2
MaxPlainCalls == 4

\* RedisSink.__init__: port=6379
DefaultPort == 6379
\* RedisSink._connect: socket_timeout=30, the bound of one blocking client call
SocketTimeout == 30

Keys == {"events", "audit"}

\* the (host, key, port) arguments sinks are constructed with
Configs ==
    {[host |-> "localhost", key |-> "events", port |-> DefaultPort],
     [host |-> "redis1", key |-> "audit", port |-> 6380]}

NoSink == [host |-> "", port |-> 0, key |-> "", conn |-> 0]
NoConn == 0

------------------------------------------------------------------------------
\* LogEvent: the kwargs dict, as the sequence of its (name, value) items in
\* insertion order.  Values are tagged with their Python type.
VStr(s) == [t |-> "str", s |-> s, n |-> 0, b |-> FALSE]
VInt(n) == [t |-> "int", s |-> "", n |-> n, b |-> FALSE]
VBool(b) == [t |-> "bool", s |-> "", n |-> 0, b |-> b]
VNull == [t |-> "null", s |-> "", n |-> 0, b |-> FALSE]
\* a value json cannot encode (a set, an arbitrary object)
VObj == [t |-> "obj", s |-> "", n |-> 0, b |-> FALSE]

EvDisk == << <<"level", VStr("error")>>, <<"msg", VStr("disk full")>> >>
EvCount == << <<"n", VInt(1)>>, <<"ok", VBool(TRUE)>>, <<"src", VNull>> >>
EvBad == << <<"level", VStr("error")>>, <<"obj", VObj>> >>

Events == {EvDisk, EvCount, EvBad}

\* json.dumps raises TypeError on a value that is not JSON serializable
Serializable(e) == \A i \in 1..Len(e) : e[i][2].t # "obj"

\* json.dumps of one value
DumpsValue(v) ==
    CASE v.t = "str" -> "\"" \o v.s \o "\""
      [] v.t = "int" -> ToString(v.n)
      [] v.t = "bool" -> (IF v.b THEN "true" ELSE "false")
      [] v.t = "null" -> "null"

\* json.dumps of the items of a dict, with the default separators (', ', ': ')
RECURSIVE DumpsItems(_)
DumpsItems(e) ==
    IF Len(e) = 0 THEN ""
    ELSE LET item == "\"" \o e[1][1] \o "\": " \o DumpsValue(e[1][2])
         IN IF Len(e) = 1 THEN item ELSE item \o ", " \o DumpsItems(Tail(e))

\* json.dumps(kwargs)
dumps(e) == "{" \o DumpsItems(e) \o "}"

------------------------------------------------------------------------------
\* Outcomes of the redis client calls.
\*   ok        the command was applied and its reply received
\*   conn_err  redis.exceptions.ConnectionError, command not applied
\*   ack_lost  redis.exceptions.ConnectionError raised while reading the reply
\*             of a command the server has applied
\*   other_err any exception that is not a ConnectionError (ResponseError, ...)
ServerStates == {"up", "down"}

RpushOutcomes(s) ==
    IF s = "up" THEN {"ok", "conn_err", "ack_lost", "other_err"}
    ELSE {"conn_err", "other_err"}

PingOutcomes(s) ==
    IF s = "up" THEN {"ok", "conn_err", "other_err"}
    ELSE {"conn_err", "other_err"}

\* the exception a client call raises, "none" when it returns
ErrorOf(o) ==
    CASE o = "ok" -> "none"
      [] o \in {"conn_err", "ack_lost"} -> "ConnectionError"
      [] o = "other_err" -> "ResponseError"

\* whether the server applied the RPUSH
Applied(o) == o \in {"ok", "ack_lost"}

\* variant: the outer handler catches every exception
IsAnyError(err) == err # "none"

\* except redis.exceptions.ConnectionError
IsConnectionError(err) == err = "ConnectionError"

\* one step of a call's trace
Step(op, out) == [op |-> op, out |-> out]

------------------------------------------------------------------------------
\* variant: the reconnect is reported at error level
InfoLineAsError(self) ==
    [level |-> "error",
     msg |-> "Redis: reconnected to server " \o self.host \o ":" \o ToString(self.port)]

\* log_output.info("Redis: reconnected to server {0}:{1}".format(host, port))
InfoLine(self) ==
    [level |-> "info",
     msg |-> "Redis: reconnected to server " \o self.host \o ":" \o ToString(self.port)]

\* log_output.error("Redis: {0}".format(e2)); str(e2) is abstracted to the
\* name of the exception class
ErrorLine(err) == [level |-> "error", msg |-> "Redis: " \o err]

\* variant: the list name is hard-coded
RpushKeyFixed(self) == "events"

\* the list self._conn.rpush(self.key, ...) names
RpushKey(self) == self.key

\* variant: the new client object is stored only once its ping succeeded
connectKeepOld(self, h, po) ==
    [self |-> IF po = "ok" THEN [self EXCEPT !.conn = h] ELSE self,
     raised |-> ErrorOf(po),
     trace |-> <<Step("open", "ok"), Step("ping", po)>>]

\* variant: every sink uses one client object shared by the module
connectShared(self, h, po) ==
    [self |-> [self EXCEPT !.conn = 1],
     raised |-> ErrorOf(po),
     trace |-> <<Step("open", "ok"), Step("ping", po)>>]

\* variant: a failed probe resets the stored connection to None
connectDropOnFailure(self, h, po) ==
    [self |-> [self EXCEPT !.conn = IF po = "ok" THEN h ELSE NoConn],
     raised |-> ErrorOf(po),
     trace |-> <<Step("open", "ok"), Step("ping", po)>>]

\* variant: the connection is probed before and after it is stored
connectProbeTwice(self, h, po) ==
    [self |-> [self EXCEPT !.conn = h],
     raised |-> ErrorOf(po),
     trace |-> <<Step("ping", po), Step("open", "ok"), Step("ping", po)>>]

\* RedisSink._connect: the new client object is stored first (creating it does
\* no I/O), then pinged; a failed ping raises out of _connect.
connect(self, h, po) ==
    [self |-> [self EXCEPT !.conn = h],
     raised |-> ErrorOf(po),
     trace |-> <<Step("open", "ok"), Step("ping", po)>>]

\* variant: __init__ swallows the exception of _connect
initSwallow(host, key, port, h, po) ==
    [self |-> [host |-> host, port |-> port, key |-> key, conn |-> h],
     raised |-> "none",
     trace |-> <<Step("open", "ok"), Step("ping", po)>>]

\* RedisSink.__init__: stores host, port, key, then _connect(); an exception
\* of _connect leaves __init__, so the caller receives no object.
init(host, key, port, h, po) ==
    LET c == connect([host |-> host, port |-> port, key |-> key, conn |-> NoConn], h, po)
    IN [self |-> IF c.raised = "none" THEN c.self ELSE NoSink,
        raised |-> c.raised,
        trace |-> c.trace]

\* variant: the second rpush is made whether or not _connect raised, and the
\* inner handler catches ConnectionError only
RetryLoose(self, p, h, po, o2) ==
    LET c == [self |-> [self EXCEPT !.conn = h],
              trace |-> <<Step("open", "ok"), Step("ping", po)>>]
        t == c.trace \o <<Step("info", "ok"), Step("rpush", o2)>>
        pushed == IF Applied(o2) THEN <<p>> ELSE << >>
    IN IF ErrorOf(o2) = "none"
       THEN [self |-> c.self, raised |-> "none", pushed |-> pushed, trace |-> t,
             lines |-> <<InfoLine(c.self)>>]
       ELSE IF IsConnectionError(ErrorOf(o2))
       THEN [self |-> c.self, raised |-> "none", pushed |-> pushed,
             trace |-> t \o <<Step("error", ErrorOf(o2))>>,
             lines |-> <<InfoLine(c.self), ErrorLine(ErrorOf(o2))>>]
       ELSE [self |-> c.self, raised |-> ErrorOf(o2), pushed |-> pushed, trace |-> t,
             lines |-> <<InfoLine(c.self)>>]

\* RedisSink.log, the handler of the first ConnectionError (lines 52-57):
\* _connect, info line, second rpush; any exception of the three is logged
\* at error level and not raised.
Retry(self, p, h, po, o2) ==
    LET c == connect(self, h, po)
    IN IF c.raised # "none"
       THEN [self |-> c.self, raised |-> "none", pushed |-> << >>,
             trace |-> c.trace \o <<Step("error", c.raised)>>,
             lines |-> <<ErrorLine(c.raised)>>]
       ELSE IF ErrorOf(o2) # "none"
       THEN [self |-> c.self, raised |-> "none",
             pushed |-> IF Applied(o2) THEN <<p>> ELSE << >>,
             trace |-> c.trace \o <<Step("info", "ok"), Step("rpush", o2),
                                    Step("error", ErrorOf(o2))>>,
             lines |-> <<InfoLine(c.self), ErrorLine(ErrorOf(o2))>>]
       ELSE [self |-> c.self, raised |-> "none", pushed |-> <<p>>,
             trace |-> c.trace \o <<Step("info", "ok"), Step("rpush", o2)>>,
             lines |-> <<InfoLine(c.self)>>]

\* RedisSink.log(**kwargs).  e is kwargs, h the identity a new client object
\* would get, o1/po/o2 the outcomes of the first rpush, of the ping of
\* _connect and of the second rpush (read only if that call is made).
\* json.dumps(kwargs) is evaluated before rpush is called, inside the try.
\* self._conn.rpush is looked up first: without a client object the lookup
\* raises AttributeError, which the outer handler does not catch.
log(self, e, h, o1, po, o2) ==
    IF self.conn = NoConn
    THEN [self |-> self, raised |-> "AttributeError", pushed |-> << >>,
          trace |-> << >>, lines |-> << >>]
    ELSE IF ~Serializable(e)
    THEN [self |-> self, raised |-> "TypeError", pushed |-> << >>,
          trace |-> << >>, lines |-> << >>]
    ELSE LET p == dumps(e)
             first == IF Applied(o1) THEN <<p>> ELSE << >>
         IN IF ErrorOf(o1) = "none"
            THEN [self |-> self, raised |-> "none", pushed |-> first,
                  trace |-> <<Step("rpush", o1)>>, lines |-> << >>]
            ELSE IF ~IsConnectionError(ErrorOf(o1))
            THEN [self |-> self, raised |-> ErrorOf(o1), pushed |-> first,
                  trace |-> <<Step("rpush", o1)>>, lines |-> << >>]
            ELSE LET r == Retry(self, p, h, po, o2)
                 IN [r EXCEPT !.pushed = first \o r.pushed,
                              !.trace = <<Step("rpush", o1)>> \o r.trace]

\* variant: ping reports a failed probe as False instead of raising
pingSwallow(self, po) ==
    [ret |-> IF po = "ok" THEN "True" ELSE "False",
     raised |-> "none",
     self |-> self,
     trace |-> <<Step("ping", po)>>]

\* RedisSink.ping: return self._conn.ping(); the library's ping returns True
\* or raises.
ping(self, po) ==
    [ret |-> IF po = "ok" THEN "True" ELSE "none",
     raised |-> ErrorOf(po),
     self |-> self,
     trace |-> <<Step("ping", po)>>]

\* Sink.log(**kwargs): pass
sinkLog(e) == [written |-> << >>, raised |-> "none"]

\* variant: the line is written without its newline
stdoutLogNoNewline(e) ==
    IF ~Serializable(e) THEN [written |-> << >>, raised |-> "TypeError"]
    ELSE [written |-> <<dumps(e)>>, raised |-> "none"]

\* StdoutSink.log(**kwargs): print(json.dumps(kwargs)) writes the text and then
\* the line end; a TypeError of json.dumps is raised before anything is written.
stdoutLog(e) ==
    IF ~Serializable(e) THEN [written |-> << >>, raised |-> "TypeError"]
    ELSE [written |-> <<dumps(e), "\n">>, raised |-> "none"]

------------------------------------------------------------------------------
\* Helpers on traces
IsIO(st) == st.op \in {"rpush", "ping"}
IOSteps(t) == SelectSeq(t, IsIO)
Count(t, op) == Len(SelectSeq(t, LAMBDA st : st.op = op))
CountOut(t, op, outs) == Len(SelectSeq(t, LAMBDA st : st.op = op /\ st.out \in outs))

\* the longest a call with trace t can block: every client call is bounded by
\* the socket timeout
WorstCaseBlocking(t) == Len(IOSteps(t)) * SocketTimeout

\* Connected when the last I/O on the sink succeeded, Disconnected when it
\* raised ConnectionError; an error reply leaves the state as it was.
StateAfter(prev, t) ==
    LET io == IOSteps(t)
    IN IF Len(io) = 0 THEN prev
       ELSE LET o == io[Len(io)].out
            IN IF o = "ok" THEN "Connected"
               ELSE IF IsConnectionError(ErrorOf(o)) THEN "Disconnected"
               ELSE prev

------------------------------------------------------------------------------
NoLast ==
    [op |-> "none", event |-> << >>, trace |-> << >>, raised |-> "none",
     ret |-> "none", sinkBefore |-> NoSink, storeBefore |-> [k \in Keys |-> << >>],
     linesBefore |-> 0, opened |-> NoConn]

Init ==
    /\ sink = NoSink
    /\ nextHandle = 1
    /\ state = "NoSink"
    /\ server \in ServerStates
    /\ store = [k \in Keys |-> << >>]
    /\ logLines = << >>
    /\ calls = 0
    /\ constructs = 0
    /\ last = NoLast
    /\ sink2 = NoSink
    /\ stdout = << >>
    /\ plainCalls = 0

\* sink = RedisSink(host, key, port)
Construct(host, key, port) ==
    /\ sink = NoSink
    /\ constructs < MaxConstructs
    /\ \E po \in PingOutcomes(server) :
         LET r == init(host, key, port, nextHandle, po)
         IN /\ sink' = r.self
            /\ state' = IF r.raised = "none" THEN "Connected" ELSE "NoSink"
            /\ last' = [NoLast EXCEPT !.op = "construct", !.trace = r.trace,
                                      !.raised = r.raised, !.storeBefore = store,
                                      !.sinkBefore = [host |-> host, port |-> port,
                                                      key |-> key, conn |-> NoConn],
                                      !.linesBefore = Len(logLines),
                                      !.opened = nextHandle]
    /\ nextHandle' = nextHandle + 1
    /\ constructs' = constructs + 1
    /\ UNCHANGED <<server, store, logLines, calls>>
    /\ UNCHANGED <<sink2, stdout, plainCalls>>

\* whether log(e) reaches its second try block after a first rpush with outcome o1
Reconnects(e, o1) == Serializable(e) /\ IsConnectionError(ErrorOf(o1))

\* sink.log(**e); the server may become reachable or unreachable between the
\* client calls the handler makes (s2: at _connect, s3: at the second rpush).
\* The outcome of a client call the handler does not make is not drawn.
Log(e) ==
    /\ sink # NoSink
    /\ calls < MaxCalls
    /\ \E o1 \in IF Serializable(e) THEN RpushOutcomes(server) ELSE {"ok"} :
       \E s2 \in IF Reconnects(e, o1) THEN ServerStates ELSE {server} :
       \E po \in IF Reconnects(e, o1) THEN PingOutcomes(s2) ELSE {"ok"} :
       \E s3 \in IF Reconnects(e, o1) /\ po = "ok" THEN ServerStates ELSE {s2} :
       \E o2 \in IF Reconnects(e, o1) /\ po = "ok" THEN RpushOutcomes(s3) ELSE {"ok"} :
           LET r == log(sink, e, nextHandle, o1, po, o2)
               opened == Count(r.trace, "open") > 0
           IN /\ sink' = r.self
              /\ nextHandle' = IF opened THEN nextHandle + 1 ELSE nextHandle
              /\ state' = StateAfter(state, r.trace)
              /\ server' = s3
              /\ store' = [store EXCEPT ![RpushKey(sink)] = @ \o r.pushed]
              /\ logLines' = logLines \o r.lines
              /\ last' = [op |-> "log", event |-> e, trace |-> r.trace,
                          raised |-> r.raised, ret |-> "none", sinkBefore |-> sink,
                          storeBefore |-> store, linesBefore |-> Len(logLines),
                          opened |-> IF opened THEN nextHandle ELSE NoConn]
    /\ calls' = calls + 1
    /\ UNCHANGED constructs
    /\ UNCHANGED <<sink2, stdout, plainCalls>>

\* sink.ping()
Ping ==
    /\ sink # NoSink
    /\ \E po \in PingOutcomes(server) :
         LET r == ping(sink, po)
         IN /\ sink' = r.self
            /\ state' = StateAfter(state, r.trace)
            /\ last' = [NoLast EXCEPT !.op = "ping", !.trace = r.trace,
                                      !.raised = r.raised, !.ret = r.ret,
                                      !.sinkBefore = sink, !.storeBefore = store,
                                      !.linesBefore = Len(logLines)]
    /\ UNCHANGED <<nextHandle, server, store, logLines, calls, constructs>>
    /\ UNCHANGED <<sink2, stdout, plainCalls>>

\* the server, or the network path to it, goes away
Lose ==
    /\ server = "up"
    /\ server' = "down"
    /\ UNCHANGED <<sink, nextHandle, state, store, logLines, calls, constructs, last>>
    /\ UNCHANGED <<sink2, stdout, plainCalls>>

\* the server is reachable again
Recover ==
    /\ server = "down"
    /\ server' = "up"
    /\ UNCHANGED <<sink, nextHandle, state, store, logLines, calls, constructs, last>>
    /\ UNCHANGED <<sink2, stdout, plainCalls>>

Next ==
    \/ \E c \in Configs : Construct(c.host, c.key, c.port)
    \/ \E e \in Events : Log(e)
    \/ Ping
    \/ Lose
    \/ Recover

Spec == Init /\ [][Next]_vars

------------------------------------------------------------------------------
\* Two RedisSink objects in one process.

\* sink2 = RedisSink(host, key, port)
Construct2(host, key, port) ==
    /\ sink2 = NoSink
    /\ constructs < MaxConstructs
    /\ \E po \in PingOutcomes(server) :
         LET r == init(host, key, port, nextHandle, po)
         IN /\ sink2' = r.self
            /\ last' = [NoLast EXCEPT !.op = "construct2", !.trace = r.trace,
                                      !.raised = r.raised, !.storeBefore = store,
                                      !.sinkBefore = [host |-> host, port |-> port,
                                                      key |-> key, conn |-> NoConn],
                                      !.linesBefore = Len(logLines),
                                      !.opened = nextHandle]
    /\ nextHandle' = nextHandle + 1
    /\ constructs' = constructs + 1
    /\ UNCHANGED <<sink, state, server, store, logLines, calls, stdout, plainCalls>>

\* sink2.log(**e)
Log2(e) ==
    /\ sink2 # NoSink
    /\ calls < MaxCalls
    /\ \E o1 \in IF Serializable(e) THEN RpushOutcomes(server) ELSE {"ok"} :
       \E s2 \in IF Reconnects(e, o1) THEN ServerStates ELSE {server} :
       \E po \in IF Reconnects(e, o1) THEN PingOutcomes(s2) ELSE {"ok"} :
       \E s3 \in IF Reconnects(e, o1) /\ po = "ok" THEN ServerStates ELSE {s2} :
       \E o2 \in IF Reconnects(e, o1) /\ po = "ok" THEN RpushOutcomes(s3) ELSE {"ok"} :
           LET r == log(sink2, e, nextHandle, o1, po, o2)
               opened == Count(r.trace, "open") > 0
           IN /\ sink2' = r.self
              /\ nextHandle' = IF opened THEN nextHandle + 1 ELSE nextHandle
              /\ server' = s3
              /\ store' = [store EXCEPT ![RpushKey(sink2)] = @ \o r.pushed]
              /\ logLines' = logLines \o r.lines
              /\ last' = [op |-> "log2", event |-> e, trace |-> r.trace,
                          raised |-> r.raised, ret |-> "none", sinkBefore |-> sink2,
                          storeBefore |-> store, linesBefore |-> Len(logLines),
                          opened |-> IF opened THEN nextHandle ELSE NoConn]
    /\ calls' = calls + 1
    /\ UNCHANGED <<sink, state, constructs, stdout, plainCalls>>

\* the events logged when two sinks are followed
TwoSinkEvents == {EvDisk}

NextTwo ==
    \/ \E c \in Configs : Construct(c.host, c.key, c.port)
    \/ \E c \in Configs : Construct2(c.host, c.key, c.port)
    \/ \E e \in TwoSinkEvents : Log(e)
    \/ \E e \in TwoSinkEvents : Log2(e)

SpecTwo == Init /\ [][NextTwo]_vars

------------------------------------------------------------------------------
\* The sinks that hold no connection.

\* Sink().log(**e)
SinkLog(e) ==
    /\ plainCalls < MaxPlainCalls
    /\ LET r == sinkLog(e)
       IN /\ stdout' = stdout \o r.written
          /\ last' = [NoLast EXCEPT !.op = "sink_log", !.event = e, !.raised = r.raised]
    /\ plainCalls' = plainCalls + 1
    /\ UNCHANGED <<sink, nextHandle, state, server, store, logLines, calls, constructs, sink2>>

\* StdoutSink().log(**e)
StdoutLog(e) ==
    /\ plainCalls < MaxPlainCalls
    /\ LET r == stdoutLog(e)
       IN /\ stdout' = stdout \o r.written
          /\ last' = [NoLast EXCEPT !.op = "stdout_log", !.event = e, !.raised = r.raised]
    /\ plainCalls' = plainCalls + 1
    /\ UNCHANGED <<sink, nextHandle, state, server, store, logLines, calls, constructs, sink2>>

NextPlain ==
    \/ \E e \in Events : SinkLog(e)
    \/ \E e \in Events : StdoutLog(e)

SpecPlain == Init /\ [][NextPlain]_vars

------------------------------------------------------------------------------
\* Vocabulary of the properties.  They speak about the last operation: its
\* trace, what it raised, and the state before and after it.
T == last.trace
IsLog == last.op = "log"
KeyOf == last.sinkBefore.key
NewEntries == SubSeq(store[KeyOf], Len(last.storeBefore[KeyOf]) + 1, Len(store[KeyOf]))
NewLines == SubSeq(logLines, last.linesBefore + 1, Len(logLines))
LinesAt(level) == Len(SelectSeq(NewLines, LAMBDA l : l.level = level))
OtherListsKept == \A k \in Keys \ {KeyOf} : store[k] = last.storeBefore[k]
OldEntriesKept ==
    /\ Len(store[KeyOf]) >= Len(last.storeBefore[KeyOf])
    /\ SubSeq(store[KeyOf], 1, Len(last.storeBefore[KeyOf])) = last.storeBefore[KeyOf]
    /\ OtherListsKept
\* rpush calls that returned normally
OkAppends == CountOut(T, "rpush", {"ok"})
\* the first rpush of the call raised ConnectionError
FirstConnError ==
    /\ IsLog
    /\ Len(T) >= 1
    /\ T[1].op = "rpush"
    /\ IsConnectionError(ErrorOf(T[1].out))
\* the liveness probe of the call's _connect, when it made one
PingOut == SelectSeq(T, LAMBDA st : st.op = "ping")
PingFailed == Len(PingOut) = 1 /\ PingOut[1].out # "ok"
PingOk == Len(PingOut) = 1 /\ PingOut[1].out = "ok"
\* what the server applied of a first rpush whose reply was lost
LostAck == IF Len(T) >= 1 /\ T[1] = Step("rpush", "ack_lost") THEN <<dumps(last.event)>> ELSE << >>

\* C1: RedisSink.log never raises to its caller, whatever fails.
C1_LogNeverRaises == IsLog => last.raised = "none"

\* C2: for every log call of any sequence: the caller is not crashed, no
\* entry appended earlier is lost, and the call's own event is missing from
\* the list only if its first append failed with a connection error and its
\* reconnect or its retried append failed too.
C2_OnlyFailedEventLost ==
    IsLog =>
        /\ last.raised = "none"
        /\ OldEntriesKept
        /\ (NewEntries = << >> =>
                /\ FirstConnError
                /\ \/ PingFailed
                   \/ PingOk /\ Count(T, "rpush") = 2 /\ T[Len(T)].op = "error")

HealthyCall == IsLog /\ Len(T) >= 1 /\ T[1] = Step("rpush", "ok")

\* C3: a log call whose first rpush succeeds appends JSON(e) exactly once to
\* the list named by key, makes no other client call, emits no log line and
\* leaves every other list and the sink as they were; the list grows by one
\* entry per such call, repeated events included.
C3_HealthyAppendsOnce ==
    /\ dumps(EvDisk) = "{\"level\": \"error\", \"msg\": \"disk full\"}"
    /\ dumps(EvCount) = "{\"n\": 1, \"ok\": true, \"src\": null}"
    /\ HealthyCall =>
        /\ store = [last.storeBefore EXCEPT ![KeyOf] = Append(@, dumps(last.event))]
        /\ Len(store[KeyOf]) = Len(last.storeBefore[KeyOf]) + 1
        /\ T = <<Step("rpush", "ok")>>
        /\ logLines = SubSeq(logLines, 1, last.linesBefore)
        /\ last.raised = "none"
        /\ sink = last.sinkBefore
C3_Witness ==
    /\ HealthyCall
    /\ calls = 2
    /\ KeyOf = "audit"
    /\ store[KeyOf] = <<dumps(EvDisk), dumps(EvDisk)>>
    /\ logLines = << >>

ReconnectCase == FirstConnError /\ PingOk /\ Count(T, "rpush") = 2 /\ T[Len(T)] = Step("rpush", "ok")

\* C4: when the first rpush raises ConnectionError and _connect and the
\* second rpush succeed, the call makes exactly one successful append (the
\* second), of JSON(e), emits exactly one info line naming host and port and
\* no error line, and does not raise.
C4_ReconnectScenario ==
    ReconnectCase =>
        /\ T = <<T[1], Step("open", "ok"), Step("ping", "ok"), Step("info", "ok"),
                 Step("rpush", "ok")>>
        /\ OkAppends = 1
        /\ NewEntries = LostAck \o <<dumps(last.event)>>
        /\ OldEntriesKept
        /\ NewLines = <<[level |-> "info",
                         msg |-> "Redis: reconnected to server " \o last.sinkBefore.host
                                    \o ":" \o ToString(last.sinkBefore.port)]>>
        /\ LinesAt("info") = 1
        /\ LinesAt("error") = 0
        /\ last.raised = "none"
C4_Witness ==
    /\ ReconnectCase
    /\ T[1].out = "conn_err"
    /\ store[KeyOf] = <<dumps(EvCount)>>
    /\ last.sinkBefore.port = 6380

ReconnectFailedCase == FirstConnError /\ PingFailed

\* C5: when the first rpush raises ConnectionError and _connect fails, the
\* call makes no successful append and no second rpush, emits exactly one
\* error line, and does not raise; the list is unchanged unless the server
\* had applied the first rpush before the connection failed.
C5_ReconnectFails ==
    ReconnectFailedCase =>
        /\ Count(T, "rpush") = 1
        /\ OkAppends = 0
        /\ NewEntries = LostAck
        /\ OldEntriesKept
        /\ LinesAt("error") = 1
        /\ Len(NewLines) = 1
        /\ NewLines[1] = ErrorLine(ErrorOf(PingOut[1].out))
        /\ last.raised = "none"
C5_Witness ==
    /\ ReconnectFailedCase
    /\ T[1].out = "conn_err"
    /\ Len(last.storeBefore[KeyOf]) = 1
    /\ store = last.storeBefore

RetryFailedCase ==
    /\ FirstConnError
    /\ PingOk
    /\ CountOut(T, "rpush", {"conn_err", "ack_lost", "other_err"}) = 2

\* C6: when the first rpush raises ConnectionError, _connect succeeds and
\* the second rpush raises any exception, the call makes no successful
\* append and no third rpush, emits exactly one error line, and does not
\* raise.
C6_RetryFails ==
    RetryFailedCase =>
        /\ Count(T, "rpush") = 2
        /\ OkAppends = 0
        /\ T[Len(T)].op = "error"
        /\ OldEntriesKept
        /\ (\A i \in 1..Len(T) : T[i].op = "rpush" => T[i].out # "ack_lost")
               => store = last.storeBefore
        /\ LinesAt("error") = 1
        /\ NewLines[Len(NewLines)].level = "error"
        /\ last.raised = "none"
C6_Witness ==
    /\ RetryFailedCase
    /\ T[1].out = "conn_err"
    /\ T[5] = Step("rpush", "other_err")
    /\ Len(last.storeBefore[KeyOf]) = 1
    /\ store = last.storeBefore

NonConnErrorCase == IsLog /\ Len(T) >= 1 /\ T[1] = Step("rpush", "other_err")

\* C7: when the first rpush raises an exception that is not a
\* ConnectionError, the call does not reconnect or retry, records an error,
\* drops the event and raises nothing.
C7_NonConnectionErrorDropped ==
    NonConnErrorCase =>
        /\ Count(T, "open") = 0
        /\ Count(T, "rpush") = 1
        /\ store = last.storeBefore
        /\ LinesAt("error") = 1
        /\ last.raised = "none"

ConstructFailed == last.op = "construct" /\ PingOut[1].out # "ok"
ConstructOk == last.op = "construct" /\ PingOut[1].out = "ok"

\* C8 as stated: a construction whose connection or probe fails raises
\* ConnectionError and leaves no sink; one that succeeds yields a Connected
\* sink.
C8_ConstructRaisesConnectionError ==
    /\ ConstructFailed => last.raised = "ConnectionError" /\ sink = NoSink
    /\ ConstructOk => last.raised = "none" /\ sink # NoSink /\ state = "Connected"

\* C8 amended: a construction whose probe fails raises the probe's exception
\* unchanged (ConnectionError for a connection-level failure, another
\* exception otherwise) and the caller gets no sink; one that succeeds
\* yields a sink holding the given host, port and key and the new
\* connection, in state Connected.
C8_ConstructPropagates ==
    /\ ConstructFailed =>
        /\ last.raised = ErrorOf(PingOut[1].out)
        /\ last.raised # "none"
        /\ PingOut[1].out = "conn_err" => last.raised = "ConnectionError"
        /\ sink = NoSink
        /\ state = "NoSink"
    /\ ConstructOk =>
        /\ last.raised = "none"
        /\ sink = [last.sinkBefore EXCEPT !.conn = last.opened]
        /\ sink # NoSink
        /\ state = "Connected"
C8_Witness ==
    /\ ConstructFailed
    /\ last.raised = "ResponseError"
    /\ constructs = 1
    /\ sink = NoSink

\* C9: ping returns True exactly when the probe succeeds and raises the
\* probe's exception when it fails; it opens no connection, keeps the stored
\* one and writes nothing; inside log a probe is only ever the one _connect
\* issues on the connection it has just opened.
C9_PingReportsProbe ==
    /\ last.op = "ping" =>
        /\ Len(T) = 1 /\ T[1].op = "ping"
        /\ (last.ret = "True") <=> (T[1].out = "ok")
        /\ (T[1].out = "ok") <=> (last.raised = "none")
        /\ last.raised = ErrorOf(T[1].out)
        /\ T[1].out # "ok" => last.ret = "none"
        /\ sink = last.sinkBefore
        /\ store = last.storeBefore
        /\ NewLines = << >>
    /\ IsLog =>
        \A i \in 1..Len(T) : T[i].op = "ping" => i > 1 /\ T[i-1].op = "open"
C9_Witness == last.op = "ping" /\ T[1].out = "conn_err" /\ last.raised = "ConnectionError"

\* C10 as stated: a _connect whose probe fails leaves the stored connection
\* the handle held before.
C10_KeepsOldHandleOnFailure ==
    (IsLog /\ PingFailed) => sink.conn = last.sinkBefore.conn

\* C10 amended: _connect stores the new handle before it probes it, so after
\* a _connect inside log the stored connection is the new handle whether the
\* probe succeeded or failed; log replaces the connection in no other case.
C10_StoresNewHandleBeforeProbe ==
    IsLog =>
        /\ Count(T, "open") = 1 =>
               /\ sink.conn = last.opened
               /\ sink.conn # last.sinkBefore.conn
               /\ sink = [last.sinkBefore EXCEPT !.conn = last.opened]
        /\ Count(T, "open") = 0 => sink = last.sinkBefore
C10_Witness ==
    /\ IsLog
    /\ PingFailed
    /\ sink.conn = last.opened
    /\ sink.conn # last.sinkBefore.conn

\* C11: a log call makes at most two rpush calls and at most one _connect;
\* it makes the _connect, and the second rpush, only after a first rpush that
\* raised ConnectionError, and the second rpush only after a _connect that
\* succeeded.
C11_AtMostOneRetry ==
    IsLog =>
        /\ Count(T, "rpush") <= 2
        /\ Count(T, "open") <= 1
        /\ (Count(T, "open") = 1 \/ Count(T, "rpush") = 2) =>
               /\ T[1].op = "rpush"
               /\ T[1].out \in {"conn_err", "ack_lost"}
        /\ Count(T, "rpush") = 2 =>
               /\ Count(T, "open") = 1
               /\ PingOk
               /\ \E i, j, k \in 1..Len(T) :
                      /\ i < j /\ j < k
                      /\ T[i].op = "open" /\ T[j] = Step("ping", "ok") /\ T[k].op = "rpush"
C11_Witness == IsLog /\ Count(T, "rpush") = 2 /\ Count(T, "open") = 1 /\ calls = 2

\* C15 as stated: a log call makes at most two blocking client calls.
C15_AtMostTwoBlockingCalls == IsLog => Len(IOSteps(T)) <= 2

\* C15 amended: a log call makes at most three blocking client calls (the
\* first rpush, the ping of _connect, the second rpush), each bounded by the
\* socket timeout of 30, so it returns within three timeouts; it makes the
\* third only after the ping succeeded.
C15_AtMostThreeBlockingCalls ==
    IsLog =>
        /\ Len(IOSteps(T)) <= 3
        /\ WorstCaseBlocking(T) <= 90
        /\ Len(IOSteps(T)) = 3 =>
               /\ IOSteps(T)[1].op = "rpush"
               /\ IOSteps(T)[2] = Step("ping", "ok")
               /\ IOSteps(T)[3].op = "rpush"
C15_Witness ==
    /\ IsLog
    /\ Len(IOSteps(T)) = 3
    /\ WorstCaseBlocking(T) = 90
    /\ IOSteps(T)[3].out = "conn_err"

\* C17: every log call adds at most one element to the list and keeps the
\* elements already there, so the list is a subsequence of the logged events.
C17_AtMostOnePerCall ==
    IsLog =>
        /\ Len(NewEntries) <= 1
        /\ OldEntriesKept
        /\ \A i \in 1..Len(NewEntries) : NewEntries[i] = dumps(last.event)

\* a log call's last client call and whether it raised ConnectionError
LastIO == IOSteps(T)[Len(IOSteps(T))]
EndsInConnError == Len(IOSteps(T)) > 0 /\ LastIO.out \in {"conn_err", "ack_lost"}

\* C12: a log call made on a sink whose last reconnect failed (or that is
\* Disconnected) is not refused: it makes an rpush again, on a
\* ConnectionError it makes a _connect again, and when the last rpush it
\* makes succeeds its event is the last element of the list and the sink
\* is Connected.
C12_NoPersistentBadState ==
    [][(/\ sink # NoSink
        /\ (IsLog /\ PingFailed) \/ state = "Disconnected"
        /\ calls' = calls + 1)
       => /\ last'.op = "log"
          /\ Serializable(last'.event) =>
                 /\ Len(T') >= 1
                 /\ T'[1].op = "rpush"
                 /\ T'[1].out \in {"conn_err", "ack_lost"} =>
                        /\ Count(T', "open") = 1
                        /\ Count(T', "ping") = 1
                        /\ sink'.conn = nextHandle
                 /\ T'[Len(T')] = Step("rpush", "ok") =>
                        /\ Len(store'[sink.key]) > Len(store[sink.key])
                        /\ store'[sink.key][Len(store'[sink.key])] = dumps(last'.event)
                        /\ state' = "Connected"
                        /\ last'.raised = "none"]_vars
C12_Witness ==
    /\ IsLog
    /\ calls = 2
    /\ last.linesBefore = 1
    /\ logLines[1].level = "error"
    /\ ReconnectCase
    /\ NewEntries = <<dumps(last.event)>>
    /\ state = "Connected"

Held == {s.conn : s \in {sink, sink2} \ {NoSink}}
SinkCount == Cardinality({i \in {1, 2} : (IF i = 1 THEN sink ELSE sink2) # NoSink})

\* C14: every sink holds exactly one connection handle, one that a _connect
\* of that sink created; a reconnect replaces the handle, after which no sink
\* holds the old one; two sinks never hold the same handle.
C14_OneHandlePerSink ==
    /\ \A h \in Held : h \in 1..(nextHandle - 1)
    /\ Cardinality(Held) = SinkCount
    /\ (sink # NoSink /\ sink2 # NoSink) => sink.conn # sink2.conn
    /\ (last.op \in {"log", "log2"} /\ Count(T, "open") = 1) =>
           /\ (IF last.op = "log" THEN sink ELSE sink2).conn = last.opened
           /\ last.sinkBefore.conn \notin Held
           /\ last.opened = nextHandle - 1
C14_Witness ==
    /\ sink # NoSink
    /\ sink2 # NoSink
    /\ last.op = "log2"
    /\ Count(T, "open") = 1
    /\ sink.conn = 1
    /\ last.sinkBefore.conn = 2
    /\ sink2.conn = 3

\* C16: StdoutSink.log(e) of a JSON-serializable e writes exactly the JSON
\* text of e and then a newline to standard output, and raises nothing;
\* Sink.log(e) writes nothing, raises nothing and changes nothing.
C16_StdoutWritesOneLine ==
    [][(plainCalls' = plainCalls + 1) =>
          /\ last'.op \in {"stdout_log", "sink_log"}
          /\ UNCHANGED <<sink, sink2, nextHandle, state, server, store, logLines>>
          /\ (last'.op = "stdout_log" /\ Serializable(last'.event)) =>
                 /\ stdout' = stdout \o <<dumps(last'.event), "\n">>
                 /\ Len(stdout') = Len(stdout) + 2
                 /\ last'.event = EvDisk =>
                        stdout'[Len(stdout') - 1] = "{\"level\": \"error\", \"msg\": \"disk full\"}"
                 /\ last'.raised = "none"
          /\ last'.op = "sink_log" =>
                 /\ stdout' = stdout
                 /\ last'.raised = "none"]_vars
C16_Witness ==
    /\ last.op = "sink_log"
    /\ last.event = EvDisk
    /\ plainCalls = 2
    /\ stdout = <<dumps(EvCount), "\n">>

====
